---- MODULE Spec2Model ----
(***************************************************************************)
(* Model of kramersmoyal/kmc.py: kmc_kernel_estimator, the kernel-based     *)
(* estimator of Kramers-Moyal coefficients.  One call of the function is    *)
(* one behaviour: the inputs are chosen in Init and every statement of the  *)
(* body is one action.  float64 values are modelled as exact rationals      *)
(* <<num, den>>; a zero denominator stands for the IEEE values nan and      *)
(* +-inf that numpy produces on a division by zero.                         *)
(***************************************************************************)
EXTENDS Integers, Naturals, Sequences, FiniteSets, TLC

VARIABLES pc, timeseries, bins, powers, weights, sample, hist, edges, mesh,
          kernelRet, kernelRaw, kernel_, kmc, p, result, err, calls

vars == <<pc, timeseries, bins, powers, weights, sample, hist, edges, mesh,
          kernelRet, kernelRaw, kernel_, kmc, p, result, err, calls>>

\* ------------------------------------------------------------------ bounds
\* samples N, dimensions D and entries N * D of the timeseries
MaxN == 3
MaxD == 2
MaxTs == 4
\* bins per dimension and points of the mesh
MaxBins == 2
MaxMesh == 7
\* rows, columns and entries of the powers matrix
MaxRows == 3
MaxCols == 2
MaxPw == 4
\* the alphabets of the inputs: the values of the timeseries, the exponents,
\* and the first and the other entries of the field the kernel returns
TsVals == {0, 1}
PowVals == {0, 1}
KerHead == {-1, 0, 1}
KerTail == {0, 1}

None == "None"

\* ------------------------------------------------- float64 as exact values
Abs(n) == IF n < 0 THEN -n ELSE n
Sign(n) == IF n < 0 THEN -1 ELSE IF n = 0 THEN 0 ELSE 1

RECURSIVE GCD(_, _)
GCD(a, b) == IF b = 0 THEN a ELSE GCD(b, a % b)

NaN == <<0, 0>>
Zero == <<0, 1>>
One == <<1, 1>>
IsFinite(x) == x[2] # 0

RNorm(n, d) ==
    IF d = 0 THEN <<Sign(n), 0>>
    ELSE LET g == GCD(Abs(n), Abs(d))
         IN  <<Sign(d) * (n \div g), Abs(d) \div g>>

R(n) == <<n, 1>>

RAdd(x, y) ==
    IF IsFinite(x) /\ IsFinite(y) THEN RNorm(x[1] * y[2] + y[1] * x[2], x[2] * y[2])
    ELSE IF IsFinite(y) THEN x
    ELSE IF IsFinite(x) THEN y
    ELSE IF x = y THEN x ELSE NaN

RMul(x, y) ==
    IF IsFinite(x) /\ IsFinite(y) THEN RNorm(x[1] * y[1], x[2] * y[2])
    ELSE <<Sign(x[1]) * Sign(y[1]), 0>>

RDiv(x, y) ==
    IF IsFinite(x) /\ IsFinite(y) THEN
        IF y[1] = 0 THEN <<Sign(x[1]), 0>> ELSE RNorm(x[1] * y[2], x[2] * y[1])
    ELSE IF IsFinite(y) THEN <<x[1] * (IF y[1] < 0 THEN -1 ELSE 1), 0>>
    ELSE IF IsFinite(x) THEN Zero
    ELSE NaN

RLe(x, y) == x[1] * y[2] <= y[1] * x[2]
RLt(x, y) == x[1] * y[2] < y[1] * x[2]

RSumSeq(s) ==
    LET RECURSIVE upto(_)
        upto(i) == IF i = 0 THEN Zero ELSE RAdd(upto(i - 1), s[i])
    IN  upto(Len(s))

RECURSIVE IntPow(_, _)
IntPow(b, e) == IF e = 0 THEN 1 ELSE b * IntPow(b, e - 1)

RECURSIVE ProdSeq(_)
ProdSeq(s) == IF s = <<>> THEN 1 ELSE Head(s) * ProdSeq(Tail(s))

\* -------------------------------------------------------- n-d array layout
\* An array is [shape |-> <<n1, ..., nk>>, val |-> [Indices(shape) -> value]],
\* an index is a tuple of 0-based positions.
RECURSIVE MaxSeq(_)
MaxSeq(s) == IF Len(s) = 1 THEN s[1]
             ELSE LET m == MaxSeq(Tail(s)) IN IF s[1] > m THEN s[1] ELSE m

Indices(shape) ==
    {idx \in [1..Len(shape) -> 0..(MaxSeq(shape) - 1)] :
        \A d \in 1..Len(shape) : idx[d] < shape[d]}

Size(shape) == ProdSeq(shape)

\* position of idx in the C-order (row-major) buffer, Horner's scheme
RECURSIVE RavelC(_, _)
RavelC(idx, shape) ==
    IF Len(shape) = 0 THEN 0
    ELSE LET k == Len(shape)
         IN  RavelC(SubSeq(idx, 1, k - 1), SubSeq(shape, 1, k - 1)) * shape[k] + idx[k]

\* the indices in the order a Fortran-order traversal visits them
RECURSIVE FOrder(_)
FOrder(shape) ==
    IF Len(shape) = 0 THEN << <<>> >>
    ELSE LET k == Len(shape)
             rest == FOrder(SubSeq(shape, 1, k - 1))
             n == Len(rest)
         IN  [j \in 1..(shape[k] * n) |-> rest[((j - 1) % n) + 1] \o <<(j - 1) \div n>>]

\* the indices of an array in the order a C-order traversal visits them
RECURSIVE COrder(_)
COrder(shape) ==
    IF Len(shape) = 0 THEN << <<>> >>
    ELSE LET rest == COrder(Tail(shape))
             n == Len(rest)
         IN  [j \in 1..(shape[1] * n) |-> <<(j - 1) \div n>> \o rest[((j - 1) % n) + 1]]

Flatten(a) == LET ord == COrder(a.shape) IN [j \in 1..Len(ord) |-> a.val[ord[j]]]

Reshape(flat, shape) ==
    [shape |-> shape, val |-> [idx \in Indices(shape) |-> flat[RavelC(idx, shape) + 1]]]

\* ------------------------------------------------------------------ inputs
Matrices(r, c, S) == [1..r -> [1..c -> S]]

N == Len(timeseries)
D == Len(timeseries[1])
P0 == Len(powers)
P1 == Len(powers[1])

Init ==
    /\ \E n \in 1..MaxN, dd \in 1..MaxD :
          /\ n * dd <= MaxTs
          /\ timeseries \in Matrices(n, dd, TsVals)
          /\ bins \in {b \in [1..dd -> 1..MaxBins] :
                          ProdSeq([d \in 1..dd |-> b[d] + 1]) <= MaxMesh}
    /\ \E r \in 1..MaxRows, c \in 1..MaxCols :
          /\ r * c <= MaxPw
          /\ powers \in Matrices(r, c, PowVals)
    /\ pc = "weights"
    /\ weights = None /\ sample = None /\ hist = None /\ edges = None
    /\ mesh = None /\ kernelRet = None /\ kernelRaw = None /\ kernel_ = None
    /\ kmc = <<>> /\ p = 0 /\ result = None /\ err = None
    /\ calls = [histogramdd |-> 0, kernel |-> 0, convolve |-> 0]

\* ------------------------------------------------- grads and weights, 45-46
\* the differences taken backwards
DiffBackward(ts) == [i \in 1..(Len(ts) - 1) |-> [d \in 1..Len(ts[1]) |-> ts[i][d] - ts[i + 1][d]]]

\* np.diff(timeseries, axis=0)
Diff(ts) == [i \in 1..(Len(ts) - 1) |-> [d \in 1..Len(ts[1]) |-> ts[i + 1][d] - ts[i][d]]]

\* numpy broadcasting of two axis lengths
Broadcastable(a, b) == a = b \/ a = 1 \/ b = 1
BroadcastLen(a, b) == IF a = 1 THEN b ELSE a

\* np.power(grads[..., None], powers): (N-1, D, 1) against (P0, P1),
\* element [i, a, b] = grads[i, a] ** powers[a, b] with length-1 axes stretched
PowerCube(g, dd, pw) ==
    LET r == Len(pw)
        c == Len(pw[1])
    IN  [i \in 1..Len(g) |-> [a \in 1..BroadcastLen(dd, r) |-> [b \in 1..c |->
            IntPow(g[i][IF dd = 1 THEN 1 ELSE a], pw[IF r = 1 THEN 1 ELSE a][b])]]]

\* np.prod(..., axis=1)
ProdAxis1(cube, c) ==
    [i \in 1..Len(cube) |-> [b \in 1..c |->
        ProdSeq([a \in 1..Len(cube[i]) |-> cube[i][a][b]])]]

ComputeWeights(ts, pw) ==
    LET g == Diff(ts)
    IN  [rows |-> Len(g), cols |-> Len(pw[1]),
         val |-> ProdAxis1(PowerCube(g, Len(ts[1]), pw), Len(pw[1]))]

rest1 == <<sample, hist, edges, mesh, kernelRet, kernelRaw, kernel_, kmc, p, result, calls>>

Weights ==
    /\ pc = "weights"
    /\ Broadcastable(D, P0)
    /\ weights' = ComputeWeights(timeseries, powers)
    /\ pc' = "histogram"
    /\ UNCHANGED <<timeseries, bins, powers, err>>
    /\ UNCHANGED rest1

WeightsBroadcastError ==
    /\ pc = "weights"
    /\ ~Broadcastable(D, P0)
    /\ pc' = "error"
    /\ err' = "ValueError"
    /\ UNCHANGED <<timeseries, bins, powers, weights>>
    /\ UNCHANGED rest1

\* ------------------------------------------- histogramdd (binning), 49-50
\* timeseries[:-1, ...]
HistSampleHead(ts) == SubSeq(ts, 1, Len(ts) - 1)

\* timeseries[1:, ...]
HistSample(ts) == Tail(ts)

RECURSIVE MinSeq(_)
MinSeq(s) == IF Len(s) = 1 THEN s[1]
             ELSE LET m == MinSeq(Tail(s)) IN IF s[1] < m THEN s[1] ELSE m
Column(smp, d) == [i \in 1..Len(smp) |-> smp[i][d]]

\* the data range of dimension d; an empty sample gets the unit range and a
\* single-valued one is widened by a half on each side, so that the edges
\* are strictly increasing
OuterEdges(smp, d) ==
    IF Len(smp) = 0 THEN <<Zero, One>>
    ELSE LET lo == MinSeq(Column(smp, d))
             hi == MaxSeq(Column(smp, d))
         IN  IF lo = hi THEN <<RNorm(2 * lo - 1, 2), RNorm(2 * hi + 1, 2)>>
             ELSE <<R(lo), R(hi)>>

BinWidth(smp, d, nb) ==
    LET oe == OuterEdges(smp, d)
    IN  RDiv(RAdd(oe[2], RMul(R(-1), oe[1])), R(nb))

\* bins[d] + 1 equally spaced boundaries over the data range
BinEdges(smp, d, nb) ==
    [j \in 1..(nb + 1) |-> RAdd(OuterEdges(smp, d)[1], RMul(R(j - 1), BinWidth(smp, d, nb)))]

\* 0-based bin of x; a value on the uppermost boundary belongs to the last bin
BinOf(x, e) ==
    LET nb == Len(e) - 1
    IN  CHOOSE j \in 0..(nb - 1) :
            /\ RLe(e[j + 1], x)
            /\ RLt(x, e[j + 2]) \/ (j = nb - 1 /\ x = e[nb + 1])

CellOf(row, edg) == [d \in 1..Len(row) |-> BinOf(R(row[d]), edg[d])]

RECURSIVE SumSeq(_)
SumSeq(s) == IF s = <<>> THEN 0 ELSE Head(s) + SumSeq(Tail(s))

CellVolume(smp, b) ==
    LET RECURSIVE vol(_)
        vol(d) == IF d = 0 THEN One ELSE RMul(vol(d - 1), BinWidth(smp, d, b[d]))
    IN  vol(Len(b))

\* sum of the weights that fall in the cell, scaled by 1 / (n * cell volume)
histogramdd(smp, b, w) ==
    LET edg == [d \in 1..Len(b) |-> BinEdges(smp, d, b[d])]
        shape == b \o <<w.cols>>
        k == Len(shape)
        scale == RMul(R(Len(smp)), CellVolume(smp, b))
        mass(idx) == SumSeq([i \in 1..Len(smp) |->
                        IF CellOf(smp[i], edg) = SubSeq(idx, 1, k - 1)
                        THEN w.val[i][idx[k] + 1] ELSE 0])
    IN  [hist |-> [shape |-> shape,
                   val |-> [idx \in Indices(shape) |-> RDiv(R(mass(idx)), scale)]],
         edges |-> edg]

rest2 == <<mesh, kernelRet, kernelRaw, kernel_, kmc, p, result>>

Histogram ==
    /\ pc = "histogram"
    /\ HistSample(timeseries) # <<>>
    /\ sample' = HistSample(timeseries)
    /\ LET h == histogramdd(HistSample(timeseries), bins, weights)
       IN  hist' = h.hist /\ edges' = h.edges
    /\ calls' = [calls EXCEPT !.histogramdd = @ + 1]
    /\ pc' = "mesh"
    /\ UNCHANGED <<timeseries, bins, powers, weights, err>>
    /\ UNCHANGED rest2

\* no sample to take the data range from: the builder either gives up ...
HistogramEmptyFails ==
    /\ pc = "histogram"
    /\ HistSample(timeseries) = <<>>
    /\ sample' = HistSample(timeseries)
    /\ calls' = [calls EXCEPT !.histogramdd = @ + 1]
    /\ pc' = "error"
    /\ err' = "ValueError"
    /\ UNCHANGED <<timeseries, bins, powers, weights, hist, edges>>
    /\ UNCHANGED rest2

\* ... or bins nothing over the unit range
HistogramEmptyDefault ==
    /\ pc = "histogram"
    /\ HistSample(timeseries) = <<>>
    /\ sample' = HistSample(timeseries)
    /\ LET h == histogramdd(HistSample(timeseries), bins, weights)
       IN  hist' = h.hist /\ edges' = h.edges
    /\ calls' = [calls EXCEPT !.histogramdd = @ + 1]
    /\ pc' = "mesh"
    /\ UNCHANGED <<timeseries, bins, powers, weights, err>>
    /\ UNCHANGED rest2

\* -------------------------------------------------- cartesian_product, 36-42
cartesian_product(arrays) ==
    LET la == Len(arrays)
        shape == [d \in 1..la |-> Len(arrays[d])] \o <<la>>
        \* arr[..., i] = a, a being arrays[i] laid along axis i (np.ix_)
        arr == [shape |-> shape,
                val |-> [idx \in Indices(shape) |->
                           arrays[idx[la + 1] + 1][idx[idx[la + 1] + 1] + 1]]]
        flat == Flatten(arr)
    IN  \* arr.reshape(-1, la)
        [r \in 1..(Len(flat) \div la) |-> [c \in 1..la |-> flat[(r - 1) * la + c]]]

MeshStep ==
    /\ pc = "mesh"
    /\ mesh' = cartesian_product(edges)
    /\ pc' = "kernel"
    /\ UNCHANGED <<timeseries, bins, powers, weights, sample, hist, edges, err, calls>>
    /\ UNCHANGED <<kernelRet, kernelRaw, kernel_, kmc, p, result>>

\* ------------------------------------------------------- kernel field, 54-55
\* what the caller's kernel may return for a mesh of m points: m scalars
KernelFields(m) ==
    {[r \in 1..m |-> IF r = 1 THEN R(a) ELSE R(b)] : a \in KerHead, b \in KerTail}

EdgeSizes(edg) == [d \in 1..Len(edg) |-> Len(edg[d])]

\* kernel(mesh, bw=bw).reshape(...): kernel_ is a view of the returned array
KernelStep ==
    /\ pc = "kernel"
    /\ \E raw \in KernelFields(Len(mesh)) :
          /\ kernelRaw' = raw
          /\ kernelRet' = raw
          /\ kernel_' = Reshape(raw, EdgeSizes(edges))
    /\ calls' = [calls EXCEPT !.kernel = @ + 1]
    /\ pc' = "normalize"
    /\ UNCHANGED <<timeseries, bins, powers, weights, sample, hist, edges, mesh, err>>
    /\ UNCHANGED <<kmc, p, result>>

\* np.size(kernel_)
KernelCount(k) == R(Size(k.shape))

\* np.sum(kernel_)
KernelSum(k) == RSumSeq(Flatten(k))

\* kernel_ /= np.sum(kernel_)
Normalized(k) ==
    LET s == KernelSum(k)
    IN  [shape |-> k.shape, val |-> [idx \in Indices(k.shape) |-> RDiv(k.val[idx], s)]]

\* the division is in place: it writes through the view into the array the
\* kernel returned
Normalize ==
    /\ pc = "normalize"
    /\ kernel_' = Normalized(kernel_)
    /\ kernelRet' = Flatten(Normalized(kernel_))
    /\ pc' = "convolve"
    /\ UNCHANGED <<timeseries, bins, powers, weights, sample, hist, edges, mesh, err>>
    /\ UNCHANGED <<kernelRaw, kmc, p, result, calls>>

\* ------------------------------------------------------- convolution, 57-62
\* hist[..., 0] whatever c
ChannelFirst(h, c) ==
    LET shape == SubSeq(h.shape, 1, Len(h.shape) - 1)
    IN  [shape |-> shape, val |-> [idx \in Indices(shape) |-> h.val[idx \o <<0>>]]]

\* hist[..., c], c 0-based
Channel(h, c) ==
    LET shape == SubSeq(h.shape, 1, Len(h.shape) - 1)
    IN  [shape |-> shape, val |-> [idx \in Indices(shape) |-> h.val[idx \o <<c>>]]]

IdxSub(a, b) == [d \in 1..Len(a) |-> a[d] - b[d]]
IdxAdd(a, b) == [d \in 1..Len(a) |-> a[d] + b[d]]
InShape(idx, shape) == \A d \in 1..Len(shape) : idx[d] >= 0 /\ idx[d] < shape[d]

\* scipy.signal.convolve(in1, in2, mode='same'): the full linear convolution,
\* of shape s1 + s2 - 1, cut down to the central part that has in1's shape
convolve(in1, in2) ==
    LET s1 == in1.shape
        s2 == in2.shape
        ord == COrder(s1)
        full(n) == RSumSeq([j \in 1..Len(ord) |->
                      LET m == IdxSub(n, ord[j])
                      IN  IF InShape(m, s2) THEN RMul(in1.val[ord[j]], in2.val[m])
                          ELSE Zero])
        start == [d \in 1..Len(s1) |-> ((s1[d] + s2[d] - 1) - s1[d]) \div 2]
    IN  [shape |-> s1, val |-> [idx \in Indices(s1) |-> full(IdxAdd(idx, start))]]

\* for p in range(powers.shape[1])
ConvolveStep ==
    /\ pc = "convolve"
    /\ p < P1
    /\ kmc' = Append(kmc, convolve(kernel_, Channel(hist, p)))
    /\ p' = p + 1
    /\ calls' = [calls EXCEPT !.convolve = @ + 1]
    /\ UNCHANGED <<timeseries, bins, powers, weights, sample, hist, edges, mesh, err>>
    /\ UNCHANGED <<pc, kernelRet, kernelRaw, kernel_, result>>

\* np.stack(kmc, axis=-1)
Stack(arrs) ==
    LET s == arrs[1].shape
        shape == s \o <<Len(arrs)>>
    IN  [shape |-> shape,
         val |-> [idx \in Indices(shape) |->
                    arrs[idx[Len(shape)] + 1].val[SubSeq(idx, 1, Len(s))]]]

Return ==
    /\ pc = "convolve"
    /\ p >= P1
    /\ result' = [kmc |-> Stack(kmc), edges |-> edges]
    /\ pc' = "done"
    /\ UNCHANGED <<timeseries, bins, powers, weights, sample, hist, edges, mesh, err>>
    /\ UNCHANGED <<kernelRet, kernelRaw, kernel_, kmc, p, calls>>

Next ==
    \/ Weights
    \/ WeightsBroadcastError
    \/ Histogram
    \/ HistogramEmptyFails
    \/ HistogramEmptyDefault
    \/ MeshStep
    \/ KernelStep
    \/ Normalize
    \/ ConvolveStep
    \/ Return

Spec == Init /\ [][Next]_vars

\* ================================================================== claims
Incr(i, d) == timeseries[i + 1][d] - timeseries[i][d]
Channels == hist.shape[Len(hist.shape)]
Last(s) == s[Len(s)]
Front(s) == SubSeq(s, 1, Len(s) - 1)

\* which of the intermediate values the call has computed so far
HasWeights == pc \in {"histogram", "mesh", "kernel", "normalize", "convolve", "done"}
                 \/ (pc = "error" /\ calls.histogramdd = 1)
HasHist == pc \in {"mesh", "kernel", "normalize", "convolve", "done"}
HasKernel == pc \in {"normalize", "convolve", "done"}
Returned == pc = "done"

\* C1: every valid call (N >= 2 samples, powers of shape (K, D)) returns a
\* result of shape (bins[0], ..., bins[D-1], K) and D edge sequences, edge
\* sequence d of length bins[d] + 1.
C1_ResultShape ==
    (pc = "done" /\ N >= 2 /\ P1 = D) =>
        /\ result.kmc.shape = bins \o <<P0>>
        /\ Len(result.edges) = D
        /\ \A d \in 1..D : Len(result.edges[d]) = bins[d] + 1

\* C2: in a call on a timeseries of at least 2 samples, a kernel field that
\* sums to zero ends the call in a DegenerateKernelError: the division by the
\* sum is never carried out and no result is returned.
C2_DegenerateKernelRaises ==
    (N >= 2 /\ HasKernel /\ RSumSeq(kernelRaw) = Zero) =>
        /\ pc \in {"normalize", "error"}
        /\ pc = "error" => err = "DegenerateKernelError"
        /\ ~Returned

\* C3: an input that violates a validation (fewer than 2 samples, powers'
\* column count different from the dimensionality, a negative exponent) never
\* gets as far as the histogram builder, the kernel or the convolution, and
\* no result is returned for it.
InvalidInput ==
    \/ N < 2
    \/ P1 # D
    \/ \E a \in 1..P0, b \in 1..P1 : powers[a][b] < 0

C3_ValidationBeforeWork ==
    InvalidInput =>
        /\ calls.histogramdd = 0 /\ calls.kernel = 0 /\ calls.convolve = 0
        /\ ~Returned

PlainDensity(smp, edg) ==
    LET shape == [d \in 1..Len(edg) |-> Len(edg[d]) - 1]
        width(d) == RAdd(edg[d][2], RMul(R(-1), edg[d][1]))
        RECURSIVE vol(_)
        vol(d) == IF d = 0 THEN One ELSE RMul(vol(d - 1), width(d))
        count(idx) == Cardinality({i \in 1..Len(smp) :
                         \A d \in 1..Len(edg) :
                            /\ RLe(edg[d][idx[d] + 1], R(smp[i][d]))
                            /\ \/ RLt(R(smp[i][d]), edg[d][idx[d] + 2])
                               \/ idx[d] = shape[d] - 1 /\ R(smp[i][d]) = edg[d][idx[d] + 2]})
    IN  [idx \in Indices(shape) |-> RDiv(R(count(idx)), RMul(R(Len(smp)), vol(Len(edg))))]

UnravelRM(r, shape) ==
    [d \in 1..Len(shape) |->
        (r \div ProdSeq(SubSeq(shape, d + 1, Len(shape)))) % shape[d]]

\* C7: once built, the mesh has one row per combination of edge coordinates, each
\* combination once, row r being the combination at the row-major
\* unravelling of r; the kernel value for combination (i0, ..., iD-1) lands
\* at index [i0, ..., iD-1] of the reshaped field.
C7_MeshRowMajor ==
    pc \in {"kernel", "normalize"} =>
        LET shape == [d \in 1..Len(edges) |-> Len(edges[d])]
            point(idx) == [d \in 1..Len(edges) |-> edges[d][idx[d] + 1]]
        IN  /\ Len(mesh) = ProdSeq(shape)
            /\ \A r \in 1..Len(mesh) :
                  /\ Len(mesh[r]) = Len(edges)
                  /\ mesh[r] = point(UnravelRM(r - 1, shape))
            /\ \A idx \in Indices(shape) :
                  Cardinality({r \in 1..Len(mesh) : mesh[r] = point(idx)}) = 1
            /\ pc = "normalize" =>
                  /\ kernel_.shape = shape
                  /\ \A idx \in Indices(shape), r \in 1..Len(mesh) :
                        mesh[r] = point(idx) => kernel_.val[idx] = kernelRaw[r]

C7_Witness ==
    /\ pc = "normalize" /\ Len(edges) = 2
    /\ Len(edges[1]) = 2 /\ Len(edges[2]) = 3
    /\ kernel_.val[<<0, 0>>] # kernel_.val[<<0, 1>>]
    /\ mesh[2] # mesh[4]

\* the centred linear convolution of kernel k with the field f (zero outside
\* its domain) at cell idx of f's domain
CentredConv(k, f, idx) ==
    LET c == [d \in 1..Len(k.shape) |-> (k.shape[d] - 1) \div 2]
        ord == COrder(k.shape)
    IN  RSumSeq([j \in 1..Len(ord) |->
            LET src == [d \in 1..Len(idx) |-> idx[d] + c[d] - ord[j][d]]
            IN  IF InShape(src, f.shape) THEN RMul(k.val[ord[j]], f.val[src]) ELSE Zero])

\* C8: in the result of a call on at least 2 samples and a kernel field of
\* non-zero sum every smoothed channel has the shape of its histogram channel
\* (the bins shape), so has the kernel field, and every output cell is the
\* centred linear convolution of the kernel with the zero-padded channel.
C8_SmoothedHasHistogramShape ==
    (pc = "done" /\ N >= 2 /\ RSumSeq(kernelRaw) # Zero) =>
        \A k \in 0..(Channels - 1) :
            /\ Front(result.kmc.shape) = Front(hist.shape)
            /\ kernel_.shape = Front(hist.shape)
            /\ Front(hist.shape) = bins
            /\ \A idx \in Indices(bins) :
                  result.kmc.val[idx \o <<k>>] = CentredConv(kernel_, Channel(hist, k), idx)

\* C9: the smoother runs once per histogram channel, the result has one
\* trailing entry per channel in channel order, and result[..., k] is
\* determined by the normalized kernel and the entries of channel k alone.
C9_ChannelsIndependent ==
    pc \in {"convolve", "done"} =>
        /\ calls.convolve = Len(kmc) /\ Len(kmc) = p /\ p <= Channels
        /\ pc = "done" =>
              /\ calls.convolve = Channels
              /\ Last(result.kmc.shape) = Channels
              /\ LET hs == Front(hist.shape)
                     off == [d \in 1..Len(hs) |-> (hs[d] - 1) \div 2]
                     cells == COrder(hs)
                     term(idx, c) ==
                        LET m == [d \in 1..Len(hs) |-> idx[d] + off[d] - c[d]]
                        IN  IF InShape(m, kernel_.shape)
                            THEN RMul(kernel_.val[m], hist.val[c \o <<Last(idx)>>])
                            ELSE Zero
                 IN  \A idx \in Indices(result.kmc.shape) :
                        result.kmc.val[idx] =
                            RSumSeq([j \in 1..Len(cells) |-> term(idx, cells[j])])

C9_Witness ==
    /\ pc = "done" /\ Channels = 2 /\ Len(bins) = 2
    /\ \E idx \in Indices(Front(result.kmc.shape)) :
          /\ IsFinite(result.kmc.val[idx \o <<0>>])
          /\ IsFinite(result.kmc.val[idx \o <<1>>])
          /\ result.kmc.val[idx \o <<0>>] # result.kmc.val[idx \o <<1>>]
          /\ result.kmc.val[idx \o <<1>>] # Zero

\* C10: a call on at least 2 samples leaves the caller's timeseries, bins and
\* powers and the array the kernel returned as they were.
C10_PurelyFunctional ==
    [][N >= 2 =>
         /\ timeseries' = timeseries /\ bins' = bins /\ powers' = powers
         /\ HasKernel => kernelRet' = kernelRet]_vars
====
